---- MODULE Spec2Model ----
(***************************************************************************)
(* The feedback-board page (src/app/[slug]/board/page.tsx, BoardPage):     *)
(* the component state, the asynchronous load sequence                     *)
(* loadProjectAndPosts with its three awaited backend queries, the         *)
(* re-triggering effect, the client-side search filter, the vote-change    *)
(* callback and the submission-form mount condition.                       *)
(*                                                                         *)
(* Every invocation of loadProjectAndPosts that awaits the backend is a    *)
(* record of seqs: its number, what it captured when it started (slug,     *)
(* statusFilter, sortBy), where it awaits and its local constants; the     *)
(* record is removed when the invocation returns.  out holds the last      *)
(* step's event with the queries, toasts and navigations it emitted.       *)
(***************************************************************************)
EXTENDS Integers, Sequences, FiniteSets, TLC

VARIABLES
    supabase,      \* getSupabaseClient() returned a client
    slug,          \* params.slug
    mounted,       \* the mount effect has run
    project,       \* useState<Project | null>
    posts,         \* useState<Post[]>
    loading,       \* useState(true)
    error,         \* useState('')
    searchTerm,    \* useState('')
    statusFilter,  \* useState('all')
    sortBy,        \* useState('votes')
    showPostForm,  \* useState(false)
    boardId,       \* useState<string | null>
    seqs,          \* the invocations of loadProjectAndPosts in flight, oldest first
    nLoads,        \* the number of invocations of loadProjectAndPosts so far
    stale,         \* posts was last written by an invocation older than the
                   \* one whose result it replaced
    out            \* the last step: its event and what it emitted

vars == <<supabase, slug, mounted, project, posts, loading, error, searchTerm,
          statusFilter, sortBy, showPostForm, boardId, seqs, nLoads,
          stale, out>>

----------------------------------------------------------------------------
(* Bounds of the model *)

\* invocations of loadProjectAndPosts in one behaviour of Spec
MaxLoads == 2
\* invocations of loadProjectAndPosts in one behaviour of RaceSpec
MaxRaceLoads == 3

----------------------------------------------------------------------------
(* Values *)

Null == "null"
NullProject == [id |-> Null, name |-> Null, slug |-> Null]
NoQuery == [board_id |-> Null, duplicate_of_is_null |-> FALSE, status |-> Null,
            order |-> Null, ascending |-> FALSE]
ErrNoClient == "Database connection not available. Please refresh the page."

Slugs == {"acme", "beta", "gone"}
StatusFilters == {"all", "planned"}
SortOrders == {"votes", "newest", "oldest"}
\* strings that are searched are sequences of characters
SearchTerms == {<<>>, <<"B">>}
\* the counts the vote control reports
NewCounts == {5}

----------------------------------------------------------------------------
(* The backend data service, as the page's queries see it *)

DBProjects ==
    { [id |-> "pA", name |-> "Acme", slug |-> "acme"],
      [id |-> "pB", name |-> "Beta", slug |-> "beta"] }

DBBoards ==
    { [id |-> "bA", project_id |-> "pA"],
      [id |-> "bB", project_id |-> "pB"] }

\* description is optional: <<>> is absent, <<s>> is the string s
DBPosts ==
    { [id |-> "p1", board_id |-> "bA", title |-> <<"A", "b">>, description |-> <<>>,
       author_email |-> "u@x", status |-> "open", created_at |-> 1,
       duplicate_of |-> Null, votes |-> 2, comments |-> 0],
      [id |-> "p2", board_id |-> "bA", title |-> <<"a">>, description |-> << <<"x", "B">> >>,
       author_email |-> Null, status |-> "planned", created_at |-> 2,
       duplicate_of |-> Null, votes |-> 2, comments |-> 1],
      [id |-> "p3", board_id |-> "bA", title |-> <<"b">>, description |-> <<>>,
       author_email |-> "v@x", status |-> "open", created_at |-> 3,
       duplicate_of |-> "p1", votes |-> 5, comments |-> 0],
      [id |-> "p4", board_id |-> "bB", title |-> <<"a">>, description |-> <<>>,
       author_email |-> Null, status |-> "open", created_at |-> 3,
       duplicate_of |-> Null, votes |-> 0, comments |-> 0] }

\* select('*, vote_count:votes(count), comment_count:comments(count)'): the row
\* with the two aggregates as one-element arrays of {count}
RawRow(r) ==
    [id |-> r.id, board_id |-> r.board_id, title |-> r.title,
     description |-> r.description, author_email |-> r.author_email,
     status |-> r.status, created_at |-> r.created_at,
     duplicate_of |-> r.duplicate_of,
     vote_count |-> <<[count |-> r.votes]>>,
     comment_count |-> <<[count |-> r.comments]>>]

RECURSIVE Perms(_)
Perms(S) ==
    IF S = {} THEN {<<>>}
    ELSE UNION { { <<x>> \o p : p \in Perms(S \ {x}) } : x \in S }

\* the value a row is ordered by
OrderKey(r, col) == IF col = "vote_count" THEN r.votes ELSE r.created_at

\* .order(col, {ascending}): rows with equal keys come in any order
Ordered(rows, q) ==
    \/ q.order = Null
    \/ \A i, j \in DOMAIN rows :
          i < j => IF q.ascending
                   THEN OrderKey(rows[i], q.order) <= OrderKey(rows[j], q.order)
                   ELSE OrderKey(rows[i], q.order) >= OrderKey(rows[j], q.order)

\* the rows a posts query selects
PostsMatching(q) ==
    { r \in DBPosts :
        /\ r.board_id = q.board_id
        /\ q.duplicate_of_is_null => r.duplicate_of = Null
        /\ q.status # Null => r.status = q.status }

Fault == [error |-> TRUE, data |-> <<>>]

\* .single(): exactly one row, or an error
Single(rows) ==
    IF Cardinality(rows) = 1
    THEN [error |-> FALSE, data |-> <<CHOOSE r \in rows : TRUE>>]
    ELSE Fault

\* what `await supabase.from('projects').select('*').eq('slug', s).single()` returns
ProjectResponses(s) ==
    {Single({p \in DBProjects : p.slug = s}), Fault}

\* what `await supabase.from('boards').select('id').eq('project_id', id).single()` returns
BoardResponses(id) ==
    {Single({[id |-> b.id] : b \in {b \in DBBoards : b.project_id = id}}), Fault}

\* what `await postsQuery` returns
PostsResponses(q) ==
    { [error |-> FALSE, data |-> [i \in DOMAIN p |-> RawRow(p[i])]] :
        p \in {p \in Perms(PostsMatching(q)) : Ordered(p, q)} }
    \cup {Fault}

----------------------------------------------------------------------------
(* Pure functions of the page *)

\* String.prototype.toLowerCase over the characters of the model
toLowerCase(s) ==
    [i \in DOMAIN s |-> IF s[i] = "A" THEN "a" ELSE IF s[i] = "B" THEN "b" ELSE s[i]]

\* String.prototype.includes
includes(s, t) ==
    \E i \in 0..(Len(s) - Len(t)) : SubSeq(s, i + 1, i + Len(t)) = t

\* (agg as Array<{count}>)?.[0]?.count || 0
FirstCount(agg) == IF Len(agg) > 0 THEN agg[1].count ELSE 0

\* MapPost, with user_voted taken from the votes of the post
MapPostVoted(post) ==
    [id |-> post.id, title |-> post.title, description |-> post.description,
     author_email |-> post.author_email, status |-> post.status,
     created_at |-> post.created_at,
     vote_count |-> FirstCount(post.vote_count),
     comment_count |-> FirstCount(post.comment_count),
     user_voted |-> FirstCount(post.vote_count) > 0]

\* one element of processedPosts
MapPost(post) ==
    [id |-> post.id, title |-> post.title, description |-> post.description,
     author_email |-> post.author_email, status |-> post.status,
     created_at |-> post.created_at,
     vote_count |-> FirstCount(post.vote_count),
     comment_count |-> FirstCount(post.comment_count),
     user_voted |-> FALSE]

\* postsData?.map(...) || []
processedPosts(postsData) ==
    IF postsData = <<>> THEN <<>>
    ELSE [i \in DOMAIN postsData |-> MapPost(postsData[i])]

\* the predicate of filteredPosts
MatchesSearch(post, term) ==
    \/ includes(toLowerCase(post.title), toLowerCase(term))
    \/ /\ post.description # <<>>
       /\ includes(toLowerCase(post.description[1]), toLowerCase(term))

FilterSeq(s, term) ==
    SelectSeq(s, LAMBDA post : MatchesSearch(post, term))

filteredPosts == FilterSeq(posts, searchTerm)

\* postsQuery, without .is('duplicate_of', null)
postsQueryWithDuplicates(board, sf, sb) ==
    [board_id |-> board,
     duplicate_of_is_null |-> FALSE,
     status |-> IF sf # "all" THEN sf ELSE Null,
     order |-> IF sb = "votes" THEN "vote_count"
               ELSE IF sb \in {"newest", "oldest"} THEN "created_at" ELSE Null,
     ascending |-> (sb = "oldest")]

\* the posts query loadProjectAndPosts builds for a board, a filter and a sort
postsQuery(board, sf, sb) ==
    [board_id |-> board,
     duplicate_of_is_null |-> TRUE,
     status |-> IF sf # "all" THEN sf ELSE Null,
     order |-> IF sb = "votes" THEN "vote_count"
               ELSE IF sb \in {"newest", "oldest"} THEN "created_at" ELSE Null,
     ascending |-> (sb = "oldest")]

\* onVoteChange, without the comparison of ids
onVoteChangeAll(prev, postId, newCount, userVoted) ==
    [i \in DOMAIN prev |->
        [prev[i] EXCEPT !.vote_count = newCount, !.user_voted = userVoted]]

\* prev.map(p => p.id === post.id ? {...p, vote_count, user_voted} : p)
onVoteChange(prev, postId, newCount, userVoted) ==
    [i \in DOMAIN prev |->
        IF prev[i].id = postId
        THEN [prev[i] EXCEPT !.vote_count = newCount, !.user_voted = userVoted]
        ELSE prev[i]]

\* showPostForm && project && boardId
FormMounted ==
    /\ ~loading
    /\ showPostForm
    /\ project # NullProject
    /\ boardId # Null

----------------------------------------------------------------------------
(* The load sequence *)

\* an invocation of loadProjectAndPosts at its first await; overtaken: a younger
\* invocation has written posts since
NewSeq(sl, sf, sb) ==
    [pc |-> "project", slug |-> sl, statusFilter |-> sf, sortBy |-> sb,
     projectData |-> NullProject, boardData |-> Null, query |-> NoQuery,
     queries |-> <<"projects">>, overtaken |-> FALSE]

Remove(s, i) == SubSeq(s, 1, i - 1) \o SubSeq(s, i + 1, Len(s))

\* a step: its event, the position in seqs of the invocation that took it (0: none),
\* the queries it sent, the toasts it showed, the routes it pushed
Ev(event, pos, queries, toasts, pushed) ==
    [event |-> event, pos |-> pos, queries |-> queries, toasts |-> toasts,
     pushed |-> pushed, postId |-> Null, newCount |-> 0, userVoted |-> FALSE]

\* the try block without its finally
FinallySkipped == loading' = loading

\* the finally block
Finally == loading' = FALSE

\* a return (or a caught exception) inside the try block
Return(i, event, toasts, pushed) ==
    /\ seqs' = Remove(seqs, i)
    /\ out' = Ev(event, i, <<>>, toasts, pushed)
    /\ Finally

\* loadProjectAndPosts, without the check of supabase
loadWithoutClientCheck(sl, sf, sb) ==
    /\ nLoads' = nLoads + 1
    /\ loading' = TRUE
    /\ seqs' = Append(seqs, NewSeq(sl, sf, sb))
    /\ out' = Ev("start", Len(seqs) + 1, <<"projects">>, <<>>, <<>>)
    /\ UNCHANGED <<error, project, posts, boardId, stale>>

\* loadProjectAndPosts, to its first await
loadProjectAndPosts(sl, sf, sb) ==
    /\ nLoads' = nLoads + 1
    /\ IF ~supabase
       THEN /\ error' = ErrNoClient
            /\ loading' = FALSE
            /\ out' = Ev("no_client", 0, <<>>, <<>>, <<>>)
            /\ UNCHANGED seqs
       ELSE /\ loading' = TRUE
            /\ seqs' = Append(seqs, NewSeq(sl, sf, sb))
            /\ out' = Ev("start", Len(seqs) + 1, <<"projects">>, <<>>, <<>>)
            /\ UNCHANGED error
    /\ UNCHANGED <<project, posts, boardId, stale>>

\* useEffect(() => loadProjectAndPosts(), [loadProjectAndPosts]) on mount
Mount ==
    /\ ~mounted
    /\ mounted' = TRUE
    /\ loadProjectAndPosts(slug, statusFilter, sortBy)
    /\ UNCHANGED <<supabase, slug, searchTerm, statusFilter, sortBy,
                   showPostForm>>

\* the route parameter changes; the effect runs with the new callback
SlugChange(s) ==
    /\ mounted
    /\ s # slug
    /\ slug' = s
    /\ loadProjectAndPosts(s, statusFilter, sortBy)
    /\ UNCHANGED <<supabase, mounted, searchTerm, statusFilter, sortBy,
                   showPostForm>>

\* the status Select, rendered when loading is false
SetStatusFilter(v) ==
    /\ mounted
    /\ ~loading
    /\ v # statusFilter
    /\ statusFilter' = v
    /\ loadProjectAndPosts(slug, v, sortBy)
    /\ UNCHANGED <<supabase, slug, mounted, searchTerm, sortBy,
                   showPostForm>>

\* the sort Select, rendered when loading is false
SetSortBy(v) ==
    /\ mounted
    /\ ~loading
    /\ v # sortBy
    /\ sortBy' = v
    /\ loadProjectAndPosts(slug, statusFilter, v)
    /\ UNCHANGED <<supabase, slug, mounted, searchTerm, statusFilter,
                   showPostForm>>

\* the search Input, rendered when loading is false
SetSearchTerm(t) ==
    /\ mounted
    /\ ~loading
    /\ t # searchTerm
    /\ searchTerm' = t
    /\ out' = Ev("ui", 0, <<>>, <<>>, <<>>)
    /\ UNCHANGED <<supabase, slug, mounted, project, posts, loading, error,
                   statusFilter, sortBy, showPostForm, boardId, seqs, nLoads,
                   stale>>

\* the Submit Feedback buttons, rendered when loading is false
OpenPostForm ==
    /\ mounted
    /\ ~loading
    /\ ~showPostForm
    /\ showPostForm' = TRUE
    /\ out' = Ev("ui", 0, <<>>, <<>>, <<>>)
    /\ UNCHANGED <<supabase, slug, mounted, project, posts, loading, error,
                   searchTerm, statusFilter, sortBy, boardId, seqs, nLoads,
                   stale>>

\* PostSubmissionForm onClose
ClosePostForm ==
    /\ FormMounted
    /\ showPostForm' = FALSE
    /\ out' = Ev("ui", 0, <<>>, <<>>, <<>>)
    /\ UNCHANGED <<supabase, slug, mounted, project, posts, loading, error,
                   searchTerm, statusFilter, sortBy, boardId, seqs, nLoads,
                   stale>>

\* PostSubmissionForm onPostSubmitted
PostSubmitted ==
    /\ FormMounted
    /\ loadProjectAndPosts(slug, statusFilter, sortBy)
    /\ UNCHANGED <<supabase, slug, mounted, searchTerm, statusFilter, sortBy,
                   showPostForm>>

\* VoteButton onVoteChange of the j-th post of the collection, when rendered
VoteChange(j, newCount, userVoted) ==
    /\ mounted
    /\ ~loading
    /\ j \in DOMAIN posts
    /\ MatchesSearch(posts[j], searchTerm)
    /\ posts' = onVoteChange(posts, posts[j].id, newCount, userVoted)
    /\ out' = [Ev("vote", 0, <<>>, <<>>, <<>>) EXCEPT
                  !.postId = posts[j].id, !.newCount = newCount,
                  !.userVoted = userVoted]
    /\ UNCHANGED <<supabase, slug, mounted, project, loading, error, searchTerm,
                   statusFilter, sortBy, showPostForm, boardId, seqs, nLoads,
                   stale>>

\* an awaited backend call rejects: catch, then finally
AwaitThrows(i) ==
    /\ i \in DOMAIN seqs
    /\ Return(i, "exception", <<"Something went wrong">>, <<>>)
    /\ UNCHANGED <<supabase, slug, mounted, project, posts, error, searchTerm,
                   statusFilter, sortBy, showPostForm, boardId, nLoads,
                   stale>>

\* ProjectError, without router.push('/')
ProjectErrorNoPush(i) ==
    /\ i \in DOMAIN seqs
    /\ seqs[i].pc = "project"
    /\ \E r \in ProjectResponses(seqs[i].slug) : r.error
    /\ Return(i, "project_error", <<"Project not found">>, <<>>)
    /\ UNCHANGED <<supabase, slug, mounted, project, posts, error, searchTerm,
                   statusFilter, sortBy, showPostForm, boardId, nLoads, stale>>

\* if (projectError) { toast; router.push('/'); return }
ProjectError(i) ==
    /\ i \in DOMAIN seqs
    /\ seqs[i].pc = "project"
    /\ \E r \in ProjectResponses(seqs[i].slug) : r.error
    /\ Return(i, "project_error", <<"Project not found">>, <<"/">>)
    /\ UNCHANGED <<supabase, slug, mounted, project, posts, error, searchTerm,
                   statusFilter, sortBy, showPostForm, boardId, nLoads,
                   stale>>

\* setProject(projectData), then the board query
ProjectOk(i) ==
    /\ i \in DOMAIN seqs
    /\ seqs[i].pc = "project"
    /\ \E r \in ProjectResponses(seqs[i].slug) :
          /\ ~r.error
          /\ project' = r.data[1]
          /\ seqs' = [seqs EXCEPT ![i].pc = "board",
                                  ![i].projectData = r.data[1],
                                  ![i].queries = Append(@, "boards")]
    /\ out' = Ev("project_ok", i, <<"boards">>, <<>>, <<>>)
    /\ UNCHANGED <<supabase, slug, mounted, posts, loading, error, searchTerm,
                   statusFilter, sortBy, showPostForm, boardId, nLoads,
                   stale>>

\* if (boardError || !boardData) { toast; return }
BoardNotFound(i) ==
    /\ i \in DOMAIN seqs
    /\ seqs[i].pc = "board"
    /\ \E r \in BoardResponses(seqs[i].projectData.id) : r.error \/ r.data = <<>>
    /\ Return(i, "board_error", <<"Board not found">>, <<>>)
    /\ UNCHANGED <<supabase, slug, mounted, project, posts, error, searchTerm,
                   statusFilter, sortBy, showPostForm, boardId, nLoads,
                   stale>>

\* setBoardId(boardData.id), then the posts query
BoardOk(i) ==
    /\ i \in DOMAIN seqs
    /\ seqs[i].pc = "board"
    /\ \E r \in BoardResponses(seqs[i].projectData.id) :
          /\ ~(r.error \/ r.data = <<>>)
          /\ boardId' = r.data[1].id
          /\ seqs' = [seqs EXCEPT
                        ![i].pc = "posts",
                        ![i].boardData = r.data[1].id,
                        ![i].query = postsQuery(r.data[1].id, seqs[i].statusFilter,
                                                seqs[i].sortBy),
                        ![i].queries = Append(@, "posts")]
    /\ out' = Ev("board_ok", i, <<"posts">>, <<>>, <<>>)
    /\ UNCHANGED <<supabase, slug, mounted, project, posts, loading, error,
                   searchTerm, statusFilter, sortBy, showPostForm, nLoads,
                   stale>>

\* PostsError, with the collection cleared
PostsErrorClears(i) ==
    /\ i \in DOMAIN seqs
    /\ seqs[i].pc = "posts"
    /\ \E r \in PostsResponses(seqs[i].query) : r.error
    /\ posts' = <<>>
    /\ Return(i, "posts_error", <<"Error loading posts">>, <<>>)
    /\ UNCHANGED <<supabase, slug, mounted, project, error, searchTerm,
                   statusFilter, sortBy, showPostForm, boardId, nLoads, stale>>

\* if (postsError) { toast; return }
PostsError(i) ==
    /\ i \in DOMAIN seqs
    /\ seqs[i].pc = "posts"
    /\ \E r \in PostsResponses(seqs[i].query) : r.error
    /\ Return(i, "posts_error", <<"Error loading posts">>, <<>>)
    /\ UNCHANGED <<supabase, slug, mounted, project, posts, error, searchTerm,
                   statusFilter, sortBy, showPostForm, boardId, nLoads,
                   stale>>

\* PostsOk, with the answer of an overtaken invocation discarded
PostsOkIfLatest(i) ==
    /\ i \in DOMAIN seqs
    /\ seqs[i].pc = "posts"
    /\ \E r \in PostsResponses(seqs[i].query) :
          /\ ~r.error
          /\ posts' = IF seqs[i].overtaken THEN posts ELSE processedPosts(r.data)
    /\ stale' = stale
    /\ seqs' = Remove([j \in DOMAIN seqs |->
                         IF j < i /\ ~seqs[i].overtaken
                         THEN [seqs[j] EXCEPT !.overtaken = TRUE]
                         ELSE seqs[j]], i)
    /\ out' = Ev("posts_ok", i, <<>>, <<>>, <<>>)
    /\ Finally
    /\ UNCHANGED <<supabase, slug, mounted, project, error, searchTerm,
                   statusFilter, sortBy, showPostForm, boardId, nLoads>>

\* setPosts(processedPosts)
PostsOk(i) ==
    /\ i \in DOMAIN seqs
    /\ seqs[i].pc = "posts"
    /\ \E r \in PostsResponses(seqs[i].query) :
          /\ ~r.error
          /\ posts' = processedPosts(r.data)
    /\ stale' = seqs[i].overtaken
    /\ seqs' = Remove([j \in DOMAIN seqs |->
                         IF j < i THEN [seqs[j] EXCEPT !.overtaken = TRUE]
                         ELSE seqs[j]], i)
    /\ out' = Ev("posts_ok", i, <<>>, <<>>, <<>>)
    /\ Finally
    /\ UNCHANGED <<supabase, slug, mounted, project, error, searchTerm,
                   statusFilter, sortBy, showPostForm, boardId, nLoads>>

\* the backend answers the i-th invocation in flight
Respond(i) ==
    \/ AwaitThrows(i)
    \/ ProjectError(i)
    \/ ProjectOk(i)
    \/ BoardNotFound(i)
    \/ BoardOk(i)
    \/ PostsError(i)
    \/ PostsOk(i)

----------------------------------------------------------------------------

Init ==
    /\ supabase \in BOOLEAN
    /\ slug \in Slugs
    /\ mounted = FALSE
    /\ project = NullProject
    /\ posts = <<>>
    /\ loading = TRUE
    /\ error = ""
    /\ searchTerm = <<>>
    /\ statusFilter = "all"
    /\ sortBy = "votes"
    /\ showPostForm = FALSE
    /\ boardId = Null
    /\ seqs = <<>>
    /\ nLoads = 0
    /\ stale = FALSE
    /\ out = Ev("init", 0, <<>>, <<>>, <<>>)

Next ==
    \/ nLoads < MaxLoads /\ Mount
    \/ nLoads < MaxLoads /\ \E s \in Slugs : SlugChange(s)
    \/ nLoads < MaxLoads /\ \E v \in StatusFilters : SetStatusFilter(v)
    \/ nLoads < MaxLoads /\ \E v \in SortOrders : SetSortBy(v)
    \/ nLoads < MaxLoads /\ PostSubmitted
    \/ \E t \in SearchTerms : SetSearchTerm(t)
    \/ OpenPostForm
    \/ ClosePostForm
    \/ \E j \in 1..Cardinality(DBPosts), n \in NewCounts, v \in BOOLEAN :
          VoteChange(j, n, v)
    \/ \E i \in 1..MaxLoads : Respond(i)

Spec == Init /\ [][Next]_vars

\* the load sequences alone, one invocation more: the route parameter and the
\* two Selects change; nothing is searched, voted or submitted
RaceNext ==
    \/ nLoads < MaxRaceLoads /\ Mount
    \/ nLoads < MaxRaceLoads /\ \E s \in Slugs : SlugChange(s)
    \/ nLoads < MaxRaceLoads /\ \E v \in StatusFilters : SetStatusFilter(v)
    \/ nLoads < MaxRaceLoads /\ \E v \in SortOrders : SetSortBy(v)
    \/ \E i \in 1..MaxRaceLoads : Respond(i)

RaceSpec == Init /\ [][RaceNext]_vars

\* every backend call is answered, and the mount effect runs
LiveSpec ==
    /\ RaceSpec
    /\ WF_vars(Mount)
    /\ WF_vars(\E i \in 1..MaxRaceLoads : Respond(i))

----------------------------------------------------------------------------
(* What the backend holds for a slug, a status filter and a sort order, stated *)
(* over the tables and not over the query the page builds.                    *)

\* the posts of the board of the project with slug sl that are no duplicates and,
\* unless sf is 'all', have status sf
ExpectedRows(sl, sf) ==
    { r \in DBPosts :
        /\ r.duplicate_of = Null
        /\ sf # "all" => r.status = sf
        /\ \E pr \in DBProjects, b \in DBBoards :
              pr.slug = sl /\ b.project_id = pr.id /\ r.board_id = b.id }

\* votes: descending vote count; newest: descending creation time; oldest:
\* ascending creation time
InRequestedOrder(rows, sb) ==
    \A a, b \in DOMAIN rows :
        a < b => /\ sb = "votes" => rows[a].votes >= rows[b].votes
                 /\ sb = "newest" => rows[a].created_at >= rows[b].created_at
                 /\ sb = "oldest" => rows[a].created_at <= rows[b].created_at

\* the view of a backend post
View(r) ==
    [id |-> r.id, title |-> r.title, description |-> r.description,
     author_email |-> r.author_email, status |-> r.status,
     created_at |-> r.created_at, vote_count |-> r.votes,
     comment_count |-> r.comments, user_voted |-> FALSE]

\* the lists that show the backend's posts for (sl, sf, sb), narrowed to term
ExpectedLists(sl, sf, sb, term) ==
    { FilterSeq([j \in DOMAIN p |-> View(p[j])], term) :
        p \in {p \in Perms(ExpectedRows(sl, sf)) : InRequestedOrder(p, sb)} }

----------------------------------------------------------------------------
(* The claims *)

\* C1: a load sequence whose project lookup returns an error shows 'Project not
\* found', pushes '/', and ends there: it has sent the projects query only, and
\* neither its start nor its end changes project, boardId or posts.
ProjectErrorAborts ==
    [][ /\ out'.event = "start" =>
              /\ project' = project /\ boardId' = boardId /\ posts' = posts
        /\ out'.event = "project_error" =>
              /\ out'.pos \in DOMAIN seqs
              /\ seqs[out'.pos].pc = "project"
              /\ seqs[out'.pos].queries = <<"projects">>
              /\ seqs' = Remove(seqs, out'.pos)
              /\ out'.toasts = <<"Project not found">>
              /\ out'.pushed = <<"/">>
              /\ out'.queries = <<>>
              /\ project' = project /\ boardId' = boardId /\ posts' = posts
      ]_vars

\* a project lookup has failed on a page that shows a project, a board and posts
ProjectErrorReached ==
    /\ out.event = "project_error"
    /\ out.pushed = <<"/">>
    /\ project # NullProject
    /\ boardId # Null
    /\ posts # <<>>

\* C2: every step that ends a load sequence (project not found, board not found,
\* posts error, exception, success) leaves loading false; and when the backend
\* answers every call, a loading page eventually is not loading.
LoadEndsNotLoading ==
    /\ [][Len(seqs') < Len(seqs) => loading' = FALSE]_vars
    /\ (loading ~> ~loading)

\* the catch block has run, and the page is not loading
ExceptionReached ==
    /\ out.event = "exception"
    /\ out.toasts = <<"Something went wrong">>
    /\ seqs = <<>>
    /\ ~loading

\* C3: after a load sequence whose project resolves and whose board lookup fails,
\* 'Board not found' is shown, the sequence has sent no posts query, project is
\* the resolved project when it resolves, boardId is null and the submission form
\* is not mounted.
BoardErrorLeavesNoBoard ==
    [][ /\ out'.event = "project_ok" =>
              /\ project' # NullProject
              /\ project' = seqs'[out'.pos].projectData
        /\ out'.event = "board_error" =>
              /\ seqs[out'.pos].queries = <<"projects", "boards">>
              /\ out'.toasts = <<"Board not found">>
              /\ out'.queries = <<>>
              /\ boardId' = Null
              /\ ~(showPostForm' /\ project' # NullProject /\ boardId' # Null)
      ]_vars

\* C4: a posts query error shows 'Error loading posts' and changes loading only:
\* posts, project, boardId, error and the filter, sort and search state are as
\* before the step; and no earlier step of a sequence writes posts.
PostsErrorKeepsPosts ==
    [][ /\ out'.event \in {"start", "project_ok", "board_ok"} => posts' = posts
        /\ out'.event = "posts_error" =>
              /\ seqs[out'.pos].pc = "posts"
              /\ out'.toasts = <<"Error loading posts">>
              /\ out'.pushed = <<>>
              /\ posts' = posts
              /\ loading' = FALSE
              /\ UNCHANGED <<project, boardId, error, slug, searchTerm,
                             statusFilter, sortBy, showPostForm>>
      ]_vars

\* a posts query has failed on a page that shows posts
PostsErrorReached ==
    /\ out.event = "posts_error"
    /\ posts # <<>>
    /\ ~loading

\* C5: onVoteChange for post P with (newCount, userVoted) sets vote_count and
\* user_voted of the post with id P, keeps its other fields, every other post,
\* the length and the order, and touches nothing else; no load starts.
VoteChangePatchesOnePost ==
    [][ out'.event = "vote" =>
          /\ \E j \in DOMAIN posts : posts[j].id = out'.postId
          /\ DOMAIN posts' = DOMAIN posts
          /\ \A j \in DOMAIN posts :
                /\ posts'[j].id = posts[j].id
                /\ posts[j].id = out'.postId =>
                      /\ posts'[j].vote_count = out'.newCount
                      /\ posts'[j].user_voted = out'.userVoted
                      /\ \A f \in {"title", "description", "author_email", "status",
                                   "created_at", "comment_count"} :
                            posts'[j][f] = posts[j][f]
                /\ posts[j].id # out'.postId => posts'[j] = posts[j]
          /\ UNCHANGED <<project, boardId, loading, error, slug, searchTerm,
                         statusFilter, sortBy, showPostForm, seqs, nLoads>>
      ]_vars

\* of two posts, the one voted on has the reported count and flag, the other its own
VoteReached ==
    /\ out.event = "vote"
    /\ out.userVoted
    /\ Len(posts) = 2
    /\ \E a, b \in DOMAIN posts :
          /\ posts[a].id = out.postId
          /\ posts[a].vote_count = out.newCount
          /\ posts[a].user_voted
          /\ posts[b].id # out.postId
          /\ posts[b].vote_count # out.newCount
          /\ ~posts[b].user_voted

\* C6, as claimed: whenever the list is displayed (a client is there and loading is
\* false), the displayed list is the backend's posts for the current slug,
\* statusFilter and sortBy, narrowed to the current searchTerm.
DisplayedIsCurrentQuery ==
    (supabase /\ ~loading) =>
        filteredPosts \in ExpectedLists(slug, statusFilter, sortBy, searchTerm)

\* C6, as amended: the step in which the posts query of a load sequence succeeds
\* leaves in posts the backend's posts for the slug, statusFilter and sortBy that
\* sequence captured when it started, in the requested order, and the displayed
\* list is posts narrowed to the current searchTerm.
PostsAreTheCapturedQuery ==
    [][ out'.event = "posts_ok" =>
          /\ posts' \in ExpectedLists(seqs[out'.pos].slug,
                                      seqs[out'.pos].statusFilter,
                                      seqs[out'.pos].sortBy, <<>>)
          /\ filteredPosts' = FilterSeq(posts', searchTerm')
      ]_vars

\* a load with the 'planned' filter has left the one planned post of the board
FilteredLoadReached ==
    /\ out.event = "posts_ok"
    /\ slug = "acme"
    /\ statusFilter = "planned"
    /\ Len(posts) = 1
    /\ posts[1].id = "p2"

\* C7: loadProjectAndPosts without a client sets the inline error and loading to
\* false, sends no query, shows no toast, pushes no route, starts no sequence and
\* leaves project, boardId and posts.
NoClientShortCircuits ==
    [][ (~supabase /\ nLoads' # nLoads) =>
          /\ error' = ErrNoClient
          /\ loading' = FALSE
          /\ out'.queries = <<>>
          /\ out'.toasts = <<>>
          /\ out'.pushed = <<>>
          /\ seqs' = seqs
          /\ seqs' = <<>>
          /\ project' = project /\ boardId' = boardId /\ posts' = posts
      ]_vars

\* the page without a client, after the mount effect and one more load
NoClientReached ==
    /\ ~supabase
    /\ nLoads = 2
    /\ error = ErrNoClient
    /\ ~loading

\* C8, as claimed: no post of the collection ever has user_voted true.
NeverVoted ==
    \A j \in DOMAIN posts : ~posts[j].user_voted

\* C8, as amended: a successful load leaves user_voted false in every post, and a
\* post has user_voted true only from a vote-change callback for that post that
\* reported true, until the next successful load.
UserVotedOnlyFromCallback ==
    [][ /\ out'.event = "posts_ok" => \A j \in DOMAIN posts' : ~posts'[j].user_voted
        /\ \A j \in DOMAIN posts' :
              posts'[j].user_voted =>
                 \/ /\ out'.event = "vote"
                    /\ out'.postId = posts'[j].id
                    /\ out'.userVoted
                 \/ /\ j \in DOMAIN posts
                    /\ posts[j].id = posts'[j].id
                    /\ posts[j].user_voted
      ]_vars

\* a second load has replaced the collection, and no post is voted
ReloadedUnvoted ==
    /\ out.event = "posts_ok"
    /\ nLoads = 2
    /\ posts # <<>>
    /\ \A j \in DOMAIN posts : ~posts[j].user_voted

\* C9: no step cancels a load sequence in flight (a start appends one, an answer
\* removes the one it answers), and a posts answer is applied whether or not a
\* younger sequence has written posts since: posts becomes that sequence's result.
StaleResponseOverwrites ==
    [][ /\ out'.event = "start" => SubSeq(seqs', 1, Len(seqs)) = seqs
        /\ Len(seqs') < Len(seqs) =>
              /\ out'.pos \in DOMAIN seqs
              /\ Len(seqs') = Len(seqs) - 1
              /\ \A j \in DOMAIN seqs' :
                    LET old == IF j < out'.pos THEN seqs[j] ELSE seqs[j + 1]
                    IN  [seqs'[j] EXCEPT !.overtaken = FALSE]
                           = [old EXCEPT !.overtaken = FALSE]
        /\ out'.event = "posts_ok" =>
              /\ stale' = seqs[out'.pos].overtaken
              /\ {posts'[j].id : j \in DOMAIN posts'}
                    = {r.id : r \in ExpectedRows(seqs[out'.pos].slug,
                                                 seqs[out'.pos].statusFilter)}
      ]_vars

\* no load is in flight, the sequence that wrote posts last is older than the one
\* whose result it replaced, and posts holds a post the current filter excludes
StaleOverwriteReached ==
    /\ seqs = <<>>
    /\ ~loading
    /\ stale
    /\ out.event = "posts_ok"
    /\ statusFilter = "planned"
    /\ \E j \in DOMAIN posts : posts[j].status # statusFilter

\* C10: while a load sequence awaits the backend, loading is true.
LoadingWhileInFlight ==
    seqs # <<>> => loading

====
